---- MODULE Spec2Model ----
(***************************************************************************)
(* Model of src/index.ts: the module-level statements (dotenv, config,     *)
(* app, new WlEc2Stack, synth) and the WlEc2Stack constructor, which       *)
(* builds the resource graph one construct at a time.                      *)
(***************************************************************************)
EXTENDS Integers, Sequences, FiniteSets, TLC

VARIABLES processEnv, dotenvFile, config, props, stackProps, pc,
          resources, order, toolkitOutcome

vars == <<processEnv, dotenvFile, config, props, stackProps, pc,
          resources, order, toolkitOutcome>>

\* ---------------------------------------------------------------- values

\* the JavaScript value undefined, as an environment / config value
Undefined == "undefined"

\* number of distinct values of the pass-through props field (description)
MaxDescription == 2

Accounts == {"111111111111", "222222222222"}
Regions == {"us-west-2", "us-east-1"}

AccountValues == Accounts \cup {Undefined}
RegionValues == Regions \cup {Undefined}

\* process.env / .env file, restricted to the two names the module reads
EnvVars == [AWS_ACCOUNT_NUMBER : AccountValues, AWS_REGION : RegionValues]

\* an env object as a caller may put in StackProps.env
EnvPairs == [account : AccountValues, region : RegionValues]

wavelengthAZ == "us-west-2-wl1-sfo-wlz-1"

AnyIpv4 == "0.0.0.0/0"

\* an object without keys ({}); an omitted props argument spreads the same
EmptyObject == [k \in {} |-> Undefined]

\* ------------------------------------------------------------ construct ids

RoleId == "wlz-ec2-demo-role"
VpcId == "AppVPC"
IgwId == "AppVPC/IGW"
PublicSubnetId == "AppVPC/PublicSubnet1"
PublicRouteTableId == "AppVPC/PublicSubnet1/RouteTable"
PublicDefaultRouteId == "AppVPC/PublicSubnet1/DefaultRoute"
NatGatewayId == "AppVPC/PublicSubnet1/NATGateway"
PrivateSubnetId == "AppVPC/PrivateSubnet1"
PrivateRouteTableId == "AppVPC/PrivateSubnet1/RouteTable"
PrivateDefaultRouteId == "AppVPC/PrivateSubnet1/DefaultRoute"
CagwId == "wlz-ec2-cagw"
WlSubnetId == "wlz-private-subnet"
WlRouteTableId == "wlz-private-subnet/RouteTable"
WlRouteId == "wlz-route"
SgId == "wlz-sg"
InstanceProfileId == "wlz-instance-profile"
LaunchTemplateId == "wl-launch-template"
InstanceId == "wlz-ec2-instance"
OutputId == "wlz-instance-publicDNS:"

\* ---------------------------------------------------------------- helpers

\* a reference to an attribute of another construct (Ref / Fn::GetAtt token)
Ref(id, attr) == [target |-> id, attr |-> attr]

\* object spread { ...a, ...b }: keys of b override keys of a
Spread(a, b) ==
  [k \in DOMAIN a \cup DOMAIN b |-> IF k \in DOMAIN b THEN b[k] ELSE a[k]]

\* adding a construct to the scope's tree
Put(res, id, r) ==
  [k \in DOMAIN res \cup {id} |-> IF k = id THEN r ELSE res[k]]

Range(s) == {s[i] : i \in 1..Len(s)}

\* dotenv: a name of the file is set only when the process does not have it
DotenvConfig(penv, file) ==
  [k \in DOMAIN penv |-> IF penv[k] = Undefined THEN file[k] ELSE penv[k]]

\* the first availability zone the stack offers to the Vpc (maxAzs: 1): a
\* looked-up zone of the region when both env fields are concrete, the
\* deploy-time Fn::GetAZs selection when the stack is environment-agnostic
StackFirstAz(env) ==
  IF env.account = Undefined \/ env.region = Undefined
    THEN "Fn::Select(0, Fn::GetAZs)"
    ELSE "dummy1a"

\* faulty variant: { env: config.env, ...props }, a caller's env wins
SuperPropsEnvFirst(p, cfg) == Spread([env |-> cfg.env], p)

\* the props handed to the base cdk.Stack
SuperProps(p, cfg) == Spread(p, [env |-> cfg.env])

\* SecurityGroup.addIngressRule: a rule already present is not added again
AddIngressRule(sg, peer, port, description) ==
  LET rule == [peer |-> peer, port |-> port, description |-> description]
  IN  IF \E i \in 1..Len(sg.ingressRules) :
            /\ sg.ingressRules[i].peer = peer
            /\ sg.ingressRules[i].port = port
        THEN sg
        ELSE [sg EXCEPT !.ingressRules = Append(@, rule)]

PortTcp(n) == [protocol |-> "tcp", fromPort |-> n, toPort |-> n]

PortIcmpPing == [protocol |-> "icmp", fromPort |-> 8, toPort |-> -1]

\* ---------------------------------------------------------------- program

\* faulty variant: the carrier gateway statement placed before the network
ProgramCagwBeforeVpc ==
  << "dotenv", "config", "app", "super", "role", "cagw", "vpc",
     "wlPrivateSubnet", "push", "wlz-route", "securityGroup", "ingress22",
     "ingress5000", "ingressPing", "instanceProfile", "wlLaunchTemplate",
     "wlEc2Instance", "output", "synth" >>

\* faulty variant: the instance profile created right after the role
ProgramIdentityTogether ==
  << "dotenv", "config", "app", "super", "role", "instanceProfile", "vpc",
     "cagw", "wlPrivateSubnet", "push", "wlz-route", "securityGroup",
     "ingress22", "ingress5000", "ingressPing", "wlLaunchTemplate",
     "wlEc2Instance", "output", "synth" >>

\* the statements of the module in source order; pc indexes into it
Program ==
  << "dotenv", "config", "app", "super", "role", "vpc", "cagw",
     "wlPrivateSubnet", "push", "wlz-route", "securityGroup", "ingress22",
     "ingress5000", "ingressPing", "instanceProfile", "wlLaunchTemplate",
     "wlEc2Instance", "output", "synth" >>

At(stmt) == pc <= Len(Program) /\ Program[pc] = stmt

\* the constructor has returned: only synth, or nothing, is left to run
Constructed == pc >= Len(Program)

Init ==
  /\ processEnv \in EnvVars
  /\ dotenvFile \in EnvVars
  /\ config = [env |-> [account |-> Undefined, region |-> Undefined]]
  /\ props = EmptyObject
  /\ stackProps = EmptyObject
  /\ pc = 1
  /\ resources = EmptyObject
  /\ order = << >>
  /\ toolkitOutcome = "none"

\* line 5: require('dotenv').config()
LoadDotenv ==
  /\ At("dotenv")
  /\ processEnv' = DotenvConfig(processEnv, dotenvFile)
  /\ pc' = pc + 1
  /\ UNCHANGED <<dotenvFile, config, props, stackProps, resources, order,
                 toolkitOutcome>>

\* lines 7-12: const config = { env: { account, region } }
ReadConfig ==
  /\ At("config")
  /\ config' = [env |-> [account |-> processEnv.AWS_ACCOUNT_NUMBER,
                         region |-> processEnv.AWS_REGION]]
  /\ pc' = pc + 1
  /\ UNCHANGED <<processEnv, dotenvFile, props, stackProps, resources, order,
                 toolkitOutcome>>

\* lines 146-147: new cdk.App(); new WlEc2Stack(app, 'WlEc2Stack', props).
\* The module itself passes {}; the exported class takes any StackProps.
NewStack ==
  /\ At("app")
  /\ \E hasEnv \in BOOLEAN, e \in EnvPairs, d \in 0..MaxDescription :
       props' = Spread(IF hasEnv THEN [env |-> e] ELSE EmptyObject,
                       IF d > 0 THEN [description |-> d] ELSE EmptyObject)
  /\ pc' = pc + 1
  /\ UNCHANGED <<processEnv, dotenvFile, config, stackProps, resources, order,
                 toolkitOutcome>>

\* faulty variant: the constructor refuses a missing account or region
CallSuperValidated ==
  /\ At("super")
  /\ config.env.account # Undefined
  /\ config.env.region # Undefined
  /\ stackProps' = SuperProps(props, config)
  /\ pc' = pc + 1
  /\ UNCHANGED <<processEnv, dotenvFile, config, props, resources, order,
                 toolkitOutcome>>

\* line 20: super(scope, id, { ...props, env: config.env })
CallSuper ==
  /\ At("super")
  /\ stackProps' = SuperProps(props, config)
  /\ pc' = pc + 1
  /\ UNCHANGED <<processEnv, dotenvFile, config, props, resources, order,
                 toolkitOutcome>>

\* lines 23-25
CreateRole ==
  /\ At("role")
  /\ resources' = Put(resources, RoleId,
       [kind |-> "Role", assumedBy |-> "ec2.amazonaws.com"])
  /\ order' = Append(order, RoleId)
  /\ pc' = pc + 1
  /\ UNCHANGED <<processEnv, dotenvFile, config, props, stackProps,
                 toolkitOutcome>>

\* the constructs ec2.Vpc makes for maxAzs 1 and the Public, Private layout
VpcConstructs(env) ==
  (VpcId :> [kind |-> "Vpc", cidr |-> "10.0.0.0/16", maxAzs |-> 1,
             subnetConfiguration |->
               << [subnetType |-> "Public", name |-> "Public",
                   cidrMask |-> 24],
                  [subnetType |-> "Private", name |-> "Private",
                   cidrMask |-> 24] >>,
             publicSubnets |-> <<PublicSubnetId>>,
             privateSubnets |-> <<PrivateSubnetId>>,
             isolatedSubnets |-> << >>])
  @@ (IgwId :> [kind |-> "InternetGateway", vpcId |-> Ref(VpcId, "Ref")])
  @@ (PublicRouteTableId :> [kind |-> "RouteTable",
                             vpcId |-> Ref(VpcId, "Ref")])
  @@ (PublicSubnetId :> [kind |-> "Subnet", subnetType |-> "Public",
                         availabilityZone |-> StackFirstAz(env),
                         cidrBlock |-> "10.0.0.0/24",
                         vpcId |-> Ref(VpcId, "Ref"),
                         mapPublicIpOnLaunch |-> TRUE,
                         routeTable |-> PublicRouteTableId])
  @@ (PublicDefaultRouteId :> [kind |-> "Route",
                               destinationCidrBlock |-> "0.0.0.0/0",
                               routeTableId |-> Ref(PublicRouteTableId, "Ref"),
                               targetField |-> "gatewayId",
                               targetRef |-> Ref(IgwId, "Ref")])
  @@ (NatGatewayId :> [kind |-> "NatGateway",
                       subnetId |-> Ref(PublicSubnetId, "Ref")])
  @@ (PrivateRouteTableId :> [kind |-> "RouteTable",
                              vpcId |-> Ref(VpcId, "Ref")])
  @@ (PrivateSubnetId :> [kind |-> "Subnet", subnetType |-> "Private",
                          availabilityZone |-> StackFirstAz(env),
                          cidrBlock |-> "10.0.1.0/24",
                          vpcId |-> Ref(VpcId, "Ref"),
                          mapPublicIpOnLaunch |-> FALSE,
                          routeTable |-> PrivateRouteTableId])
  @@ (PrivateDefaultRouteId :> [kind |-> "Route",
                                destinationCidrBlock |-> "0.0.0.0/0",
                                routeTableId |->
                                  Ref(PrivateRouteTableId, "Ref"),
                                targetField |-> "natGatewayId",
                                targetRef |-> Ref(NatGatewayId, "Ref")])

VpcConstructOrder ==
  << VpcId, PublicSubnetId, PublicRouteTableId, PrivateSubnetId,
     PrivateRouteTableId, IgwId, PublicDefaultRouteId, NatGatewayId,
     PrivateDefaultRouteId >>

\* lines 28-43
CreateVpc ==
  /\ At("vpc")
  /\ resources' = Spread(resources, VpcConstructs(stackProps.env))
  /\ order' = order \o VpcConstructOrder
  /\ pc' = pc + 1
  /\ UNCHANGED <<processEnv, dotenvFile, config, props, stackProps,
                 toolkitOutcome>>

\* lines 46-48
CreateCarrierGateway ==
  /\ At("cagw")
  /\ resources' = Put(resources, CagwId,
       [kind |-> "CarrierGateway", vpcId |-> Ref(VpcId, "Ref")])
  /\ order' = Append(order, CagwId)
  /\ pc' = pc + 1
  /\ UNCHANGED <<processEnv, dotenvFile, config, props, stackProps,
                 toolkitOutcome>>

\* lines 51-56: the PrivateSubnet construct and the route table it owns
CreateWlPrivateSubnet ==
  /\ At("wlPrivateSubnet")
  /\ resources' =
       Put(Put(resources, WlSubnetId,
               [kind |-> "Subnet", subnetType |-> "Private",
                availabilityZone |-> wavelengthAZ,
                cidrBlock |-> "10.0.2.0/26",
                vpcId |-> Ref(VpcId, "Ref"),
                mapPublicIpOnLaunch |-> FALSE,
                routeTable |-> WlRouteTableId]),
           WlRouteTableId,
           [kind |-> "RouteTable", vpcId |-> Ref(VpcId, "Ref")])
  /\ order' = order \o <<WlSubnetId, WlRouteTableId>>
  /\ pc' = pc + 1
  /\ UNCHANGED <<processEnv, dotenvFile, config, props, stackProps,
                 toolkitOutcome>>

\* faulty variant: the edge subnet pushed onto vpc.publicSubnets
PushEdgeSubnetPublic ==
  /\ At("push")
  /\ resources' = [resources EXCEPT
                     ![VpcId].publicSubnets = Append(@, WlSubnetId)]
  /\ pc' = pc + 1
  /\ UNCHANGED <<processEnv, dotenvFile, config, props, stackProps, order,
                 toolkitOutcome>>

\* line 59: vpc.privateSubnets.push(wlPrivateSubnet)
PushEdgeSubnet ==
  /\ At("push")
  /\ resources' = [resources EXCEPT
                     ![VpcId].privateSubnets = Append(@, WlSubnetId)]
  /\ pc' = pc + 1
  /\ UNCHANGED <<processEnv, dotenvFile, config, props, stackProps, order,
                 toolkitOutcome>>

\* faulty variant: the default route through the internet gateway
CreateRouteViaIgw ==
  /\ At("wlz-route")
  /\ resources' = Put(resources, WlRouteId,
       [kind |-> "Route", destinationCidrBlock |-> "0.0.0.0/0",
        routeTableId |-> Ref(resources[WlSubnetId].routeTable, "Ref"),
        targetField |-> "gatewayId",
        targetRef |-> Ref(IgwId, "Ref")])
  /\ order' = Append(order, WlRouteId)
  /\ pc' = pc + 1
  /\ UNCHANGED <<processEnv, dotenvFile, config, props, stackProps,
                 toolkitOutcome>>

\* lines 62-66
CreateRoute ==
  /\ At("wlz-route")
  /\ resources' = Put(resources, WlRouteId,
       [kind |-> "Route", destinationCidrBlock |-> "0.0.0.0/0",
        routeTableId |-> Ref(resources[WlSubnetId].routeTable, "Ref"),
        targetField |-> "carrierGatewayId",
        targetRef |-> Ref(CagwId, "Ref")])
  /\ order' = Append(order, WlRouteId)
  /\ pc' = pc + 1
  /\ UNCHANGED <<processEnv, dotenvFile, config, props, stackProps,
                 toolkitOutcome>>

\* lines 69-73
CreateSecurityGroup ==
  /\ At("securityGroup")
  /\ resources' = Put(resources, SgId,
       [kind |-> "SecurityGroup", vpc |-> Ref(VpcId, "Ref"),
        allowAllOutbound |-> TRUE, securityGroupName |-> "wlz-sg",
        ingressRules |-> << >>])
  /\ order' = Append(order, SgId)
  /\ pc' = pc + 1
  /\ UNCHANGED <<processEnv, dotenvFile, config, props, stackProps,
                 toolkitOutcome>>

\* lines 76-80
AddIngress22 ==
  /\ At("ingress22")
  /\ resources' = [resources EXCEPT ![SgId] =
       AddIngressRule(@, AnyIpv4, PortTcp(22),
                      "Allows SSH access from bastion")]
  /\ pc' = pc + 1
  /\ UNCHANGED <<processEnv, dotenvFile, config, props, stackProps, order,
                 toolkitOutcome>>

\* faulty variant: port 22 repeated in place of port 5000
AddIngress22Again ==
  /\ At("ingress5000")
  /\ resources' = [resources EXCEPT ![SgId] =
       AddIngressRule(@, AnyIpv4, PortTcp(22),
                      "Allows HTTP access from carrier network")]
  /\ pc' = pc + 1
  /\ UNCHANGED <<processEnv, dotenvFile, config, props, stackProps, order,
                 toolkitOutcome>>

\* lines 82-86
AddIngress5000 ==
  /\ At("ingress5000")
  /\ resources' = [resources EXCEPT ![SgId] =
       AddIngressRule(@, AnyIpv4, PortTcp(5000),
                      "Allows HTTP access from carrier network")]
  /\ pc' = pc + 1
  /\ UNCHANGED <<processEnv, dotenvFile, config, props, stackProps, order,
                 toolkitOutcome>>

\* lines 88-92
AddIngressPing ==
  /\ At("ingressPing")
  /\ resources' = [resources EXCEPT ![SgId] =
       AddIngressRule(@, AnyIpv4, PortIcmpPing,
                      "Allows ICMP pings from carrier devices")]
  /\ pc' = pc + 1
  /\ UNCHANGED <<processEnv, dotenvFile, config, props, stackProps, order,
                 toolkitOutcome>>

\* faulty variant: the instance profile without the role
CreateInstanceProfileNoRole ==
  /\ At("instanceProfile")
  /\ resources' = Put(resources, InstanceProfileId,
       [kind |-> "InstanceProfile", roles |-> << >>])
  /\ order' = Append(order, InstanceProfileId)
  /\ pc' = pc + 1
  /\ UNCHANGED <<processEnv, dotenvFile, config, props, stackProps,
                 toolkitOutcome>>

\* lines 95-101
CreateInstanceProfile ==
  /\ At("instanceProfile")
  /\ resources' = Put(resources, InstanceProfileId,
       [kind |-> "InstanceProfile", roles |-> <<Ref(RoleId, "Ref")>>])
  /\ order' = Append(order, InstanceProfileId)
  /\ pc' = pc + 1
  /\ UNCHANGED <<processEnv, dotenvFile, config, props, stackProps,
                 toolkitOutcome>>

\* faulty variant: the interface in the network's own private subnet
CreateLaunchTemplateVpcSubnet ==
  /\ At("wlLaunchTemplate")
  /\ resources' = Put(resources, LaunchTemplateId,
       [kind |-> "LaunchTemplate",
        launchTemplateName |-> "wl-launch-template",
        networkInterfaces |->
          << [deviceIndex |-> 0, associateCarrierIpAddress |-> TRUE,
              groups |-> <<Ref(SgId, "GroupId")>>,
              deleteOnTermination |-> TRUE,
              subnetId |-> Ref(resources[VpcId].privateSubnets[1], "Ref")] >>,
        imageId |-> "AmazonLinuxImage", instanceType |-> "t3.medium",
        keyName |-> "wl-cdk-demo-1",
        iamInstanceProfile |-> [arn |-> Ref(InstanceProfileId, "Arn")]])
  /\ order' = Append(order, LaunchTemplateId)
  /\ pc' = pc + 1
  /\ UNCHANGED <<processEnv, dotenvFile, config, props, stackProps,
                 toolkitOutcome>>

\* lines 104-128
CreateLaunchTemplate ==
  /\ At("wlLaunchTemplate")
  /\ resources' = Put(resources, LaunchTemplateId,
       [kind |-> "LaunchTemplate",
        launchTemplateName |-> "wl-launch-template",
        networkInterfaces |->
          << [deviceIndex |-> 0, associateCarrierIpAddress |-> TRUE,
              groups |-> <<Ref(SgId, "GroupId")>>,
              deleteOnTermination |-> TRUE,
              subnetId |-> Ref(WlSubnetId, "Ref")] >>,
        imageId |-> "AmazonLinuxImage", instanceType |-> "t3.medium",
        keyName |-> "wl-cdk-demo-1",
        iamInstanceProfile |-> [arn |-> Ref(InstanceProfileId, "Arn")]])
  /\ order' = Append(order, LaunchTemplateId)
  /\ pc' = pc + 1
  /\ UNCHANGED <<processEnv, dotenvFile, config, props, stackProps,
                 toolkitOutcome>>

\* lines 131-137
CreateInstance ==
  /\ At("wlEc2Instance")
  /\ resources' = Put(resources, InstanceId,
       [kind |-> "Instance",
        launchTemplate |->
          [launchTemplateName |->
             resources[LaunchTemplateId].launchTemplateName,
           version |-> Ref(LaunchTemplateId, "DefaultVersionNumber")],
        availabilityZone |-> wavelengthAZ])
  /\ order' = Append(order, InstanceId)
  /\ pc' = pc + 1
  /\ UNCHANGED <<processEnv, dotenvFile, config, props, stackProps,
                 toolkitOutcome>>

\* faulty variant: the output exposes the private DNS name
CreateOutputPrivateDns ==
  /\ At("output")
  /\ resources' = Put(resources, OutputId,
       [kind |-> "Output", value |-> Ref(InstanceId, "PrivateDnsName")])
  /\ order' = Append(order, OutputId)
  /\ pc' = pc + 1
  /\ UNCHANGED <<processEnv, dotenvFile, config, props, stackProps,
                 toolkitOutcome>>

\* lines 140-142
CreateOutput ==
  /\ At("output")
  /\ resources' = Put(resources, OutputId,
       [kind |-> "Output", value |-> Ref(InstanceId, "PublicDnsName")])
  /\ order' = Append(order, OutputId)
  /\ pc' = pc + 1
  /\ UNCHANGED <<processEnv, dotenvFile, config, props, stackProps,
                 toolkitOutcome>>

\* line 148: app.synth(); what the toolkit reports is the toolkit's choice
Synth ==
  /\ At("synth")
  /\ toolkitOutcome' \in {"ok", "failed"}
  /\ pc' = pc + 1
  /\ UNCHANGED <<processEnv, dotenvFile, config, props, stackProps,
                 resources, order>>

Next ==
  \/ LoadDotenv
  \/ ReadConfig
  \/ NewStack
  \/ CallSuper
  \/ CreateRole
  \/ CreateVpc
  \/ CreateCarrierGateway
  \/ CreateWlPrivateSubnet
  \/ PushEdgeSubnet
  \/ CreateRoute
  \/ CreateSecurityGroup
  \/ AddIngress22
  \/ AddIngress5000
  \/ AddIngressPing
  \/ CreateInstanceProfile
  \/ CreateLaunchTemplate
  \/ CreateInstance
  \/ CreateOutput
  \/ Synth

Spec == Init /\ [][Next]_vars

\* ------------------------------------------------------- graph inspection

StmtIndex(stmt) == CHOOSE i \in 1..Len(Program) : Program[i] = stmt

Pos(id) == CHOOSE i \in 1..Len(order) : order[i] = id

Occurrences(s, x) == Cardinality({i \in 1..Len(s) : s[i] = x})

IsPrefix(s, t) == Len(s) <= Len(t) /\ \A i \in 1..Len(s) : s[i] = t[i]

IdsOfKind(k) == {id \in DOMAIN resources : resources[id].kind = k}

\* the references to other constructs that a resource holds
Refs(r) ==
  CASE r.kind \in {"InternetGateway", "RouteTable", "Subnet",
                   "CarrierGateway"} -> {r.vpcId}
    [] r.kind = "Route" -> {r.routeTableId, r.targetRef}
    [] r.kind = "NatGateway" -> {r.subnetId}
    [] r.kind = "SecurityGroup" -> {r.vpc}
    [] r.kind = "InstanceProfile" -> Range(r.roles)
    [] r.kind = "LaunchTemplate" ->
         {r.iamInstanceProfile.arn}
         \cup UNION {Range(r.networkInterfaces[i].groups)
                     \cup {r.networkInterfaces[i].subnetId} :
                     i \in 1..Len(r.networkInterfaces)}
    [] r.kind = "Instance" -> {r.launchTemplate.version}
    [] r.kind = "Output" -> {r.value}
    [] OTHER -> {}

AllRefs ==
  UNION {{[from |-> id, to |-> ref.target, attr |-> ref.attr] :
          ref \in Refs(resources[id])} : id \in DOMAIN resources}

\* the constructs the constructor's own statements create, in source order
CodeOrder ==
  << RoleId, VpcId, CagwId, WlSubnetId, WlRouteId, SgId, InstanceProfileId,
     LaunchTemplateId, InstanceId, OutputId >>

IsTopLevel(id) == id \in Range(CodeOrder)

TopOrder == SelectSeq(order, IsTopLevel)

\* ------------------------------------------------------------------ C1

\* C1: every reference a resource holds points at a resource of the graph
\* that was constructed before its holder (the instance's launch template
\* name names a launch template constructed before the instance), at every
\* construction step; after the constructor every construct exists and
\* every listed cross-reference is held.
C1_NoDanglingReferences ==
  /\ Range(order) = DOMAIN resources
  /\ \A id \in DOMAIN resources : Occurrences(order, id) = 1
  /\ \A id \in DOMAIN resources : \A ref \in Refs(resources[id]) :
       /\ ref.target \in DOMAIN resources
       /\ Pos(ref.target) < Pos(id)
  /\ \A id \in IdsOfKind("Instance") :
       \E lt \in IdsOfKind("LaunchTemplate") :
         /\ resources[lt].launchTemplateName
              = resources[id].launchTemplate.launchTemplateName
         /\ resources[id].launchTemplate.version.target = lt
         /\ Pos(lt) < Pos(id)
  /\ Constructed =>
       /\ Range(CodeOrder) \subseteq DOMAIN resources
       /\ {[from |-> CagwId, to |-> VpcId, attr |-> "Ref"],
           [from |-> WlSubnetId, to |-> VpcId, attr |-> "Ref"],
           [from |-> WlRouteId, to |-> WlRouteTableId, attr |-> "Ref"],
           [from |-> WlRouteId, to |-> CagwId, attr |-> "Ref"],
           [from |-> SgId, to |-> VpcId, attr |-> "Ref"],
           [from |-> InstanceProfileId, to |-> RoleId, attr |-> "Ref"],
           [from |-> LaunchTemplateId, to |-> SgId, attr |-> "GroupId"],
           [from |-> LaunchTemplateId, to |-> WlSubnetId, attr |-> "Ref"],
           [from |-> LaunchTemplateId, to |-> InstanceProfileId,
            attr |-> "Arn"],
           [from |-> InstanceId, to |-> LaunchTemplateId,
            attr |-> "DefaultVersionNumber"],
           [from |-> OutputId, to |-> InstanceId, attr |-> "PublicDnsName"]}
            \subseteq AllRefs

C1_Witness ==
  /\ Constructed
  /\ OutputId \in DOMAIN resources
  /\ Cardinality(AllRefs) >= 11

\* ------------------------------------------------------------------ C2

ConfiguredSubnetCount(v) == Len(v.subnetConfiguration) * v.maxAzs

SubnetCount(v) ==
  Len(v.publicSubnets) + Len(v.privateSubnets) + Len(v.isolatedSubnets)

\* C2: the network's public list is always the one configured public
\* subnet, the edge subnet is never in it and never twice in the private
\* list, and after construction the private list is the configured private
\* subnet followed by the edge subnet: configured count + 1 subnets.
C2_SubnetCollection ==
  VpcId \in DOMAIN resources =>
    LET v == resources[VpcId] IN
      /\ v.publicSubnets = <<PublicSubnetId>>
      /\ resources[PublicSubnetId].subnetType = "Public"
      /\ resources[PrivateSubnetId].subnetType = "Private"
      /\ v.isolatedSubnets = << >>
      /\ Occurrences(v.privateSubnets, WlSubnetId) <= 1
      /\ pc <= StmtIndex("push") => /\ v.privateSubnets = <<PrivateSubnetId>>
                                    /\ SubnetCount(v)
                                         = ConfiguredSubnetCount(v)
      /\ Constructed =>
           /\ v.privateSubnets = <<PrivateSubnetId, WlSubnetId>>
           /\ ConfiguredSubnetCount(v) = 2
           /\ SubnetCount(v) = ConfiguredSubnetCount(v) + 1

C2_Witness ==
  /\ Constructed
  /\ Occurrences(resources[VpcId].privateSubnets, WlSubnetId) = 1
  /\ SubnetCount(resources[VpcId]) = 3

\* ------------------------------------------------------------------ C3

RoutesOf(routeTable) ==
  {id \in IdsOfKind("Route") : resources[id].routeTableId.target = routeTable}

\* C3: no route other than wlz-route is ever in the edge subnet's route
\* table, and after construction that table holds exactly wlz-route, with
\* destination 0.0.0.0/0 and the stack's carrier gateway as its target.
C3_EdgeRouteTable ==
  /\ WlSubnetId \in DOMAIN resources =>
       RoutesOf(resources[WlSubnetId].routeTable) \subseteq {WlRouteId}
  /\ Constructed =>
       /\ RoutesOf(resources[WlSubnetId].routeTable) = {WlRouteId}
       /\ resources[WlRouteId].destinationCidrBlock = "0.0.0.0/0"
       /\ resources[WlRouteId].targetField = "carrierGatewayId"
       /\ resources[WlRouteId].targetRef = Ref(CagwId, "Ref")
       /\ resources[CagwId].kind = "CarrierGateway"
       /\ IdsOfKind("CarrierGateway") = {CagwId}

C3_Witness ==
  /\ Constructed
  /\ Cardinality(IdsOfKind("Route")) = 3
  /\ RoutesOf(WlRouteTableId) = {WlRouteId}

\* ------------------------------------------------------------------ C4

IngressOf(sg) ==
  {[peer |-> sg.ingressRules[i].peer, port |-> sg.ingressRules[i].port] :
   i \in 1..Len(sg.ingressRules)}

\* C4: the security group never holds an ingress rule twice, and after
\* construction it holds exactly tcp 22, tcp 5000 and icmp echo, each from
\* any IPv4 address.
C4_IngressRules ==
  /\ SgId \in DOMAIN resources =>
       Cardinality(IngressOf(resources[SgId]))
         = Len(resources[SgId].ingressRules)
  /\ Constructed =>
       /\ resources[SgId].securityGroupName = "wlz-sg"
       /\ Len(resources[SgId].ingressRules) = 3
       /\ IngressOf(resources[SgId]) =
            {[peer |-> "0.0.0.0/0",
              port |-> [protocol |-> "tcp", fromPort |-> 22, toPort |-> 22]],
             [peer |-> "0.0.0.0/0",
              port |-> [protocol |-> "tcp", fromPort |-> 5000,
                        toPort |-> 5000]],
             [peer |-> "0.0.0.0/0",
              port |-> [protocol |-> "icmp", fromPort |-> 8, toPort |-> -1]]}

C4_Witness ==
  /\ Constructed
  /\ Len(resources[SgId].ingressRules) = 3

\* ------------------------------------------------------------------ C5

\* C5: the launch template has one network interface, device index 0, with
\* associateCarrierIpAddress set, whose subnet is the edge subnet (the one
\* in the wavelength zone) and not a subnet the network configured.
C5_LaunchTemplateInterface ==
  LaunchTemplateId \in DOMAIN resources =>
    LET nis == resources[LaunchTemplateId].networkInterfaces IN
      /\ Len(nis) = 1
      /\ nis[1].deviceIndex = 0
      /\ nis[1].associateCarrierIpAddress = TRUE
      /\ nis[1].subnetId.target = WlSubnetId
      /\ resources[nis[1].subnetId.target].availabilityZone = wavelengthAZ
      /\ nis[1].subnetId.target \notin {PublicSubnetId, PrivateSubnetId}

C5_Witness ==
  /\ LaunchTemplateId \in DOMAIN resources
  /\ Len(resources[VpcId].privateSubnets) = 2
  /\ resources[VpcId].privateSubnets[1] # WlSubnetId

\* ------------------------------------------------------------------ C6

\* C6: the instance profile lists exactly one role, the name of the
\* stack's only role (assumable by ec2.amazonaws.com), and the launch
\* template binds the arn of that instance profile.
C6_InstanceProfileRole ==
  /\ InstanceProfileId \in DOMAIN resources =>
       /\ Len(resources[InstanceProfileId].roles) = 1
       /\ resources[InstanceProfileId].roles[1] = Ref(RoleId, "Ref")
       /\ IdsOfKind("Role") = {RoleId}
       /\ resources[RoleId].assumedBy = "ec2.amazonaws.com"
  /\ LaunchTemplateId \in DOMAIN resources =>
       /\ resources[LaunchTemplateId].iamInstanceProfile.arn
            = Ref(InstanceProfileId, "Arn")
       /\ IdsOfKind("InstanceProfile") = {InstanceProfileId}

C6_Witness ==
  /\ LaunchTemplateId \in DOMAIN resources
  /\ InstanceProfileId \in DOMAIN resources

\* ------------------------------------------------------------------ C7

\* C7: for account 111111111111 and region us-west-2 the finished graph has
\* exactly one instance, in zone us-west-2-wl1-sfo-wlz-1, the zone of the
\* edge subnet, and exactly one output, whose value is the public DNS
\* attribute of that instance.
C7_EndToEnd ==
  (/\ Constructed
   /\ stackProps.env = [account |-> "111111111111", region |-> "us-west-2"])
  =>
    /\ IdsOfKind("Instance") = {InstanceId}
    /\ resources[InstanceId].availabilityZone = "us-west-2-wl1-sfo-wlz-1"
    /\ resources[InstanceId].availabilityZone
         = resources[WlSubnetId].availabilityZone
    /\ IdsOfKind("Output") = {OutputId}
    /\ resources[OutputId].value = Ref(InstanceId, "PublicDnsName")

C7_Witness ==
  /\ Constructed
  /\ stackProps.env = [account |-> "111111111111", region |-> "us-west-2"]
  /\ OutputId \in DOMAIN resources

\* ------------------------------------------------------------------ C8

\* the step of the overview's list that each construct belongs to
SpecStep(id) ==
  CASE id = VpcId -> 1
    [] id \in {RoleId, InstanceProfileId} -> 2
    [] id \in {CagwId, WlRouteId} -> 3
    [] id = WlSubnetId -> 4
    [] id = SgId -> 5
    [] id = LaunchTemplateId -> 6
    [] id = InstanceId -> 7
    [] id = OutputId -> 8

\* C8 as stated: constructs are created in the order of the overview's
\* steps 1..8, no construct of a later step before one of an earlier step.
C8_SpecOrder ==
  \A i, j \in 1..Len(TopOrder) :
    i < j => SpecStep(TopOrder[i]) <= SpecStep(TopOrder[j])

\* C8 amended: constructs are created strictly in the source's order (role,
\* network, carrier gateway, edge subnet, route, security group, instance
\* profile, launch template, instance, output), each step complete before
\* the next: the network's own constructs exist before the carrier gateway,
\* the edge subnet is appended before the route is created, and the three
\* ingress rules are added before the instance profile is created.
C8_SourceOrder ==
  /\ IsPrefix(TopOrder, CodeOrder)
  /\ CagwId \in DOMAIN resources =>
       Range(VpcConstructOrder) \subseteq DOMAIN resources
  /\ WlRouteId \in DOMAIN resources =>
       WlSubnetId \in Range(resources[VpcId].privateSubnets)
  /\ InstanceProfileId \in DOMAIN resources =>
       Len(resources[SgId].ingressRules) = 3
  /\ Constructed => TopOrder = CodeOrder

C8_Witness ==
  /\ Constructed
  /\ TopOrder = CodeOrder
  /\ Pos(RoleId) < Pos(VpcId)
  /\ Pos(SgId) < Pos(InstanceProfileId)

\* ------------------------------------------------------------------ C9

\* C9: once the base stack has been given its props, their env is the pair
\* of AWS_ACCOUNT_NUMBER and AWS_REGION of the process environment, whatever
\* env the caller's props carried, and every other key of the caller's
\* props is passed with its value and no key is added.
C9_EnvOverride ==
  pc > StmtIndex("super") =>
    /\ "env" \in DOMAIN stackProps
    /\ stackProps.env = [account |-> processEnv.AWS_ACCOUNT_NUMBER,
                         region |-> processEnv.AWS_REGION]
    /\ DOMAIN stackProps \ {"env"} = DOMAIN props \ {"env"}
    /\ \A k \in DOMAIN props \ {"env"} : stackProps[k] = props[k]

C9_Witness ==
  /\ pc > StmtIndex("super")
  /\ "env" \in DOMAIN props
  /\ "description" \in DOMAIN props
  /\ props.env.account # processEnv.AWS_ACCOUNT_NUMBER
  /\ props.env.region # processEnv.AWS_REGION

\* ------------------------------------------------------------------ C10

MissingEnv ==
  config.env.account = Undefined \/ config.env.region = Undefined

ExpectedIds == Range(CodeOrder) \cup Range(VpcConstructOrder)
                 \cup {WlRouteTableId}

ExpectedRefs ==
  {[from |-> PublicSubnetId, to |-> VpcId, attr |-> "Ref"],
   [from |-> PublicRouteTableId, to |-> VpcId, attr |-> "Ref"],
   [from |-> PrivateSubnetId, to |-> VpcId, attr |-> "Ref"],
   [from |-> PrivateRouteTableId, to |-> VpcId, attr |-> "Ref"],
   [from |-> IgwId, to |-> VpcId, attr |-> "Ref"],
   [from |-> PublicDefaultRouteId, to |-> PublicRouteTableId, attr |-> "Ref"],
   [from |-> PublicDefaultRouteId, to |-> IgwId, attr |-> "Ref"],
   [from |-> NatGatewayId, to |-> PublicSubnetId, attr |-> "Ref"],
   [from |-> PrivateDefaultRouteId, to |-> PrivateRouteTableId,
    attr |-> "Ref"],
   [from |-> PrivateDefaultRouteId, to |-> NatGatewayId, attr |-> "Ref"],
   [from |-> CagwId, to |-> VpcId, attr |-> "Ref"],
   [from |-> WlSubnetId, to |-> VpcId, attr |-> "Ref"],
   [from |-> WlRouteTableId, to |-> VpcId, attr |-> "Ref"],
   [from |-> WlRouteId, to |-> WlRouteTableId, attr |-> "Ref"],
   [from |-> WlRouteId, to |-> CagwId, attr |-> "Ref"],
   [from |-> SgId, to |-> VpcId, attr |-> "Ref"],
   [from |-> InstanceProfileId, to |-> RoleId, attr |-> "Ref"],
   [from |-> LaunchTemplateId, to |-> SgId, attr |-> "GroupId"],
   [from |-> LaunchTemplateId, to |-> WlSubnetId, attr |-> "Ref"],
   [from |-> LaunchTemplateId, to |-> InstanceProfileId, attr |-> "Arn"],
   [from |-> InstanceId, to |-> LaunchTemplateId,
    attr |-> "DefaultVersionNumber"],
   [from |-> OutputId, to |-> InstanceId, attr |-> "PublicDnsName"]}

====
